---- MODULE Spec2Model ----
(***************************************************************************)
(* Model of polybridge.client.PolybridgeClient: the low-level _post        *)
(* helper, the _chunk generator, the _merge_responses / _response_to_frames *)
(* utilities and the fetch_timeseries orchestration built from them.        *)
(*                                                                          *)
(* A decoded JSON object is a record with one field per key the code looks *)
(* at; a key that is not in the object holds an "absent" value of the same *)
(* shape, so that "key in dict" is a test on the field.                     *)
(***************************************************************************)
EXTENDS Integers, Sequences, FiniteSets, TLC

\* ------------------------------------------------------------------ bounds
MaxEntries == 3   \* longest catalog the service returns
MaxRows == 1      \* most rows one block of one reply carries
MaxChunks == 3    \* longest run of chunk replies folded by the merger
MaxLen == 4       \* longest sequence handed to _chunk on its own
MaxSize == 5      \* largest chunk size handed to _chunk on its own

\* ------------------------------------------------------------ JSON values
None == "None"    \* Python's None where the other values are strings
NoneId == 0       \* Python's None where the other values are market ids

BLOCKS == <<"probabilities", "prices", "options_metrics">>
BlockNames == {BLOCKS[i] : i \in 1..Len(BLOCKS)}

\* The value found under a block key: kind "absent" (no such key), "nondict"
\* (a JSON value that is not an object) or "dict" (an object, whose "columns"
\* and "rows" keys may each be missing).
AbsentBlock ==
    [kind |-> "absent", has_columns |-> FALSE, columns |-> <<>>,
     has_rows |-> FALSE, rows |-> <<>>]
NonDictBlock ==
    [kind |-> "nondict", has_columns |-> FALSE, columns |-> <<>>,
     has_rows |-> FALSE, rows |-> <<>>]
DictBlock(has_columns, columns, has_rows, rows) ==
    [kind |-> "dict", has_columns |-> has_columns, columns |-> columns,
     has_rows |-> has_rows, rows |-> rows]

\* A decoded response body without its "error" key.  meta and other are
\* <<>> when the key is missing and <<v>> when it holds v; "other" stands for
\* any key outside the three known blocks and "meta".
EmptyDict ==
    [probabilities |-> AbsentBlock, prices |-> AbsentBlock,
     options_metrics |-> AbsentBlock, meta |-> <<>>, other |-> <<>>]

\* bool(d) of a dict: it has at least one key
IsEmptyDict(d) == d = EmptyDict

\* block_data.get("rows", []) and block_data.get("columns", [])
GetRows(block_data) == IF block_data.has_rows THEN block_data.rows ELSE <<>>
GetColumns(block_data) ==
    IF block_data.has_columns THEN block_data.columns ELSE <<>>

Min(a, b) == IF a <= b THEN a ELSE b

\* ------------------------------------------------------------------ _chunk
\* a slice that takes hi as its last position but one
SliceShort(sequence, lo, hi) == SubSeq(sequence, lo + 1, Min(hi, Len(sequence)) - 1)

\* sequence[lo : hi] with 0 <= lo, a Python slice (0-based, hi exclusive,
\* clipped to the length)
Slice(sequence, lo, hi) == SubSeq(sequence, lo + 1, Min(hi, Len(sequence)))

\* for index in range(0, len(sequence), size): yield list(sequence[index:index+size])
\* The batches still to come from position index on, for size >= 1.
RECURSIVE ChunkFrom(_, _, _)
ChunkFrom(sequence, size, index) ==
    IF index >= Len(sequence)
    THEN <<>>
    ELSE <<Slice(sequence, index, index + size)>>
             \o ChunkFrom(sequence, size, index + size)

\* list(_chunk(sequence, size)): a negative step gives an empty range; a zero
\* step makes range() raise, which the callers below test before they call.
Chunk(sequence, size) ==
    IF size < 0 THEN <<>> ELSE ChunkFrom(sequence, size, 0)

\* ------------------------------------------------------------------- _post
\* What session.post hands back: the HTTP status, whether response.json()
\* decodes the body, the shape of the decoded body's "error" key ("absent",
\* "string" for a bare string, "object" for {code, message, detail?}) and the
\* rest of the decoded body.
Statuses == {200, 201, 204, 301, 304, 400, 404, 500, 503}
ErrorShapes == {"absent", "string", "object"}

Reply(status, is_json, error, data) ==
    [status |-> status, is_json |-> is_json, error |-> error, data |-> data]

\* response.raise_for_status(): requests raises HTTPError for a 4xx or a 5xx
\* status and for no other.
RaiseForStatus(status) == 400 <= status /\ status < 600

\* error_detail of lines 97-110, by where its text comes from: the decoded
\* error envelope, or the raw response text.
ErrorDetail(response) ==
    IF response.is_json /\ response.error # "absent" THEN "envelope" ELSE "text"

\* _post with the error envelope looked at before the status
PostEnvelopeFirst(response) ==
    IF response.is_json /\ response.error # "absent"
    THEN [raised |-> "RuntimeError", detail |-> None, data |-> response.data]
    ELSE IF RaiseForStatus(response.status)
    THEN [raised |-> "HTTPError", detail |-> ErrorDetail(response),
          data |-> response.data]
    ELSE IF ~response.is_json
    THEN [raised |-> "JSONDecodeError", detail |-> None, data |-> response.data]
    ELSE [raised |-> None, detail |-> None, data |-> response.data]

\* _post: the exception it raises (None when it returns), the source of the
\* HTTPError message, and the body it returns.
Post(response) ==
    IF RaiseForStatus(response.status)
    THEN [raised |-> "HTTPError", detail |-> ErrorDetail(response),
          data |-> response.data]
    ELSE IF ~response.is_json
    THEN [raised |-> "JSONDecodeError", detail |-> None, data |-> response.data]
    ELSE IF response.error # "absent"
    THEN [raised |-> "RuntimeError", detail |-> None, data |-> response.data]
    ELSE [raised |-> None, detail |-> None, data |-> response.data]

\* -------------------------------------------------------- _merge_responses
\* the new rows put in front of the old ones
ExtendInFront(rows, more) == more \o rows

\* rows.extend(more)
Extend(rows, more) == rows \o more

\* One pass of the loop over the known blocks, from block i on; it stops at
\* the first statement that raises.
RECURSIVE MergeBlocks(_, _, _)
MergeBlocks(destination, source, i) ==
    IF i > Len(BLOCKS)
    THEN [raised |-> None, value |-> destination]
    ELSE LET block == BLOCKS[i]
             block_data == source[block]
         IN  IF block_data.kind = "absent"
             THEN MergeBlocks(destination, source, i + 1)
             ELSE IF destination[block].kind = "absent"
             THEN IF block_data.kind # "dict"
                  THEN [raised |-> "AttributeError", value |-> destination]
                  ELSE MergeBlocks(
                         [destination EXCEPT ![block] =
                            DictBlock(TRUE, GetColumns(block_data),
                                      TRUE, GetRows(block_data))],
                         source, i + 1)
             ELSE IF destination[block].kind # "dict"
             THEN [raised |-> "TypeError", value |-> destination]
             ELSE IF ~destination[block].has_rows
             THEN [raised |-> "KeyError", value |-> destination]
             ELSE IF block_data.kind # "dict"
             THEN [raised |-> "AttributeError", value |-> destination]
             ELSE MergeBlocks(
                    [destination EXCEPT ![block].rows =
                       Extend(@, GetRows(block_data))],
                    source, i + 1)

\* destination["meta"] = source["meta"] when "meta" in source
MergeMetaLastWins(destination, source) ==
    IF source.meta # <<>>
    THEN [destination EXCEPT !.meta = source.meta]
    ELSE destination

\* destination.setdefault("meta", source["meta"]) when "meta" in source
MergeMeta(destination, source) ==
    IF source.meta # <<>> /\ destination.meta = <<>>
    THEN [destination EXCEPT !.meta = source.meta]
    ELSE destination

\* _merge_responses without the early return of lines 431-432
MergeResponsesAlwaysCopies(destination, source) ==
    LET merged == MergeBlocks(destination, source, 1)
    IN  IF merged.raised # None
        THEN merged
        ELSE [raised |-> None, value |-> MergeMeta(merged.value, source)]

MergeResponses(destination, source) ==
    IF IsEmptyDict(destination)
    THEN [raised |-> None, value |-> source]
    ELSE LET merged == MergeBlocks(destination, source, 1)
         IN  IF merged.raised # None
             THEN merged
             ELSE [raised |-> None, value |-> MergeMeta(merged.value, source)]

\* ----------------------------------------------------- _response_to_frames
\* The frames, as a function from the block names that get one to the rows
\* of the table: pd.DataFrame(rows) if rows else pd.DataFrame().
FrameBlocks(response) == {b \in BlockNames : response[b].kind = "dict"}

ResponseToFrames(response) ==
    [b \in FrameBlocks(response) |-> GetRows(response[b])]

\* ------------------------------------------------------- fetch_timeseries
HORIZON_INTERVAL_MAP ==
    [h \in {"daily", "weekly", "monthly", "yearly"} |->
        CASE h = "daily" -> "5m"
          [] h = "weekly" -> "30m"
          [] h = "monthly" -> "1h"
          [] h = "yearly" -> "4h"]

\* HORIZON_INTERVAL_MAP.get(horizon)
IntervalOf(horizon) ==
    IF horizon \in DOMAIN HORIZON_INTERVAL_MAP
    THEN HORIZON_INTERVAL_MAP[horizon]
    ELSE None

\* markets_by_interval is a dict, which keeps its keys in insertion order: a
\* sequence of [interval, market_ids], one per key, in the order the keys
\* were first used.
Position(groups, interval) ==
    IF \E i \in 1..Len(groups) : groups[i].interval = interval
    THEN CHOOSE i \in 1..Len(groups) : groups[i].interval = interval
    ELSE 0

\* markets_by_interval[interval].append(market_id)
AppendMarket(groups, interval, market_id) ==
    LET i == Position(groups, interval)
    IN  IF i = 0
        THEN Append(groups, [interval |-> interval, market_ids |-> <<market_id>>])
        ELSE [groups EXCEPT ![i].market_ids = Append(@, market_id)]

\* the loop over the catalog entries without the test of market_id
RECURSIVE GroupFromAnyId(_, _, _)
GroupFromAnyId(entries, k, groups) ==
    IF k > Len(entries)
    THEN groups
    ELSE LET horizon == entries[k].horizon
             market_id == entries[k].market_id
         IN  IF horizon = None
             THEN GroupFromAnyId(entries, k + 1, groups)
             ELSE IF IntervalOf(horizon) # None
             THEN GroupFromAnyId(entries, k + 1,
                                 AppendMarket(groups, IntervalOf(horizon), market_id))
             ELSE GroupFromAnyId(entries, k + 1, groups)

\* the loop over the catalog entries, from entry k on
RECURSIVE GroupFrom(_, _, _)
GroupFrom(entries, k, groups) ==
    IF k > Len(entries)
    THEN groups
    ELSE LET horizon == entries[k].horizon
             market_id == entries[k].market_id
         IN  IF horizon = None \/ market_id = NoneId
             THEN GroupFrom(entries, k + 1, groups)
             ELSE IF IntervalOf(horizon) # None
             THEN GroupFrom(entries, k + 1,
                            AppendMarket(groups, IntervalOf(horizon), market_id))
             ELSE GroupFrom(entries, k + 1, groups)

GroupByInterval(entries) == GroupFrom(entries, 1, <<>>)

\* sorted(set(market_ids), reverse=True)
SortedSetReversed(market_ids) ==
    LET ids == {market_ids[i] : i \in 1..Len(market_ids)}
    IN  [i \in 1..Cardinality(ids) |->
            CHOOSE x \in ids : Cardinality({y \in ids : y > x}) = i - 1]

\* sorted(set(market_ids))
SortedSet(market_ids) ==
    LET ids == {market_ids[i] : i \in 1..Len(market_ids)}
    IN  [i \in 1..Cardinality(ids) |->
            CHOOSE x \in ids : Cardinality({y \in ids : y < x}) = i - 1]

\* the key without the interval
FrameKeyBlockOnly(block, interval, n_intervals) == block

\* key = block if len(markets_by_interval) == 1 else f"{block}_{interval}"
FrameKey(block, interval, n_intervals) ==
    IF n_intervals = 1 THEN block ELSE block \o "_" \o interval

\* the loop of lines 321-323: dataframes[key] = frame for every frame
AddFrames(frames, response, interval, n_intervals) ==
    LET new == ResponseToFrames(response)
        keys == {FrameKey(b, interval, n_intervals) : b \in DOMAIN new}
        \* the last block, in the order of the loop, that is stored under k
        last(k) == BLOCKS[CHOOSE i \in 1..Len(BLOCKS) :
                     /\ BLOCKS[i] \in DOMAIN new
                     /\ FrameKey(BLOCKS[i], interval, n_intervals) = k
                     /\ \A j \in (i + 1)..Len(BLOCKS) :
                          ~(/\ BLOCKS[j] \in DOMAIN new
                            /\ FrameKey(BLOCKS[j], interval, n_intervals) = k)]
    IN  [k \in keys \cup DOMAIN frames |->
            IF k \in keys THEN new[last(k)] ELSE frames[k]]

TimeseriesResult(catalog_, responses_, dataframes_) ==
    [catalog |-> catalog_, responses |-> responses_, dataframes |-> dataframes_]

\* ------------------------------------------------------------ the inputs
\* Catalog entries as the service may return them: a horizon of the table,
\* one outside it ("hourly") or none, with a market id or none.
MarketIds == {1, 2}
Entries ==
    [horizon : {"daily", "weekly"}, market_id : MarketIds \cup {NoneId}]
      \cup [horizon : {"hourly", None}, market_id : {1}]

SeqsUpTo(S, n) == UNION {[1..k -> S] : k \in 0..n}

\* the decoded catalog body: "markets" missing, or a list of entries
CatalogBodies ==
    {[has_markets |-> FALSE, markets |-> <<>>]}
      \cup {[has_markets |-> TRUE, markets |-> m] : m \in SeqsUpTo(Entries, MaxEntries)}

\* The rows of the reply to request number k for block number b, n of them:
\* each row is tagged with where it comes from.
RowsFor(b, k, n) == [j \in 1..n |-> 100 * b + 10 * k + j]

RowsBlock(b, k, n) == DictBlock(TRUE, <<"t">>, TRUE, RowsFor(b, k, n))

\* Decoded bulk bodies of the reply to request number k: the empty object;
\* every known block with n >= 1 rows, and "meta"; "probabilities" alone
\* with no row; a "prices" that is no object; an "options_metrics" object
\* without "rows".
BulkBodies(k) ==
    {EmptyDict,
     [EmptyDict EXCEPT !.prices = NonDictBlock],
     [EmptyDict EXCEPT !.options_metrics = DictBlock(TRUE, <<"t">>, FALSE, <<>>)],
     [EmptyDict EXCEPT !.probabilities = RowsBlock(1, k, 0)]}
      \cup {[probabilities |-> RowsBlock(1, k, n), prices |-> RowsBlock(2, k, n),
             options_metrics |-> RowsBlock(3, k, n), meta |-> <<k>>,
             other |-> <<>>] : n \in 1..MaxRows}

\* one status of each kind raise_for_status tells apart, and a redirect
ReplyStatuses == {200, 304, 404, 500}

\* What the transport may hand back for a request: a 200 with any body of
\* the endpoint, and every other combination of status, decodability and
\* error envelope around the endpoint's plainest body.
RepliesAround(bodies, plain) ==
    {Reply(200, TRUE, "absent", d) : d \in bodies}
      \cup {Reply(s, TRUE, e, plain) : s \in ReplyStatuses, e \in ErrorShapes}
      \cup {Reply(s, FALSE, "absent", plain) : s \in ReplyStatuses}

CatalogReplies ==
    RepliesAround(CatalogBodies, [has_markets |-> FALSE, markets |-> <<>>])
BulkReplies(k) == RepliesAround(BulkBodies(k), EmptyDict)

ChunkSizes == -1..2
HorizonArgs == {<<>>, <<"daily", "weekly">>}

\* <<include_probabilities, include_prices, include_options_metrics>>: the
\* defaults, and three more settings such that every flag is seen set and
\* unset and any two flags are seen to differ
FlagArgs ==
    {<<TRUE, TRUE, FALSE>>, <<TRUE, FALSE, TRUE>>, <<FALSE, TRUE, TRUE>>,
     <<FALSE, FALSE, FALSE>>}

\* ------------------------------------------------------------------ state
VARIABLES
    pc,                  \* where fetch_timeseries stands
    horizons,            \* the horizons argument
    chunk_size,          \* the chunk_size argument
    include_probabilities,   \* the include_probabilities argument
    include_prices,          \* the include_prices argument
    include_options_metrics, \* the include_options_metrics argument
    requests,            \* every request sent so far, in order
    in_flight,           \* the requests sent and not yet answered, in order
    post_raised,         \* what the latest _post call raised, None if it returned
    catalog_response,    \* <<the local catalog_response>>, <<>> before line 263
    catalog,             \* the local catalog
    markets_by_interval, \* the local markets_by_interval
    interval_index,      \* position of the interval loop in markets_by_interval
    chunks,              \* the batches of the current interval
    chunk_index,         \* position of the chunk loop in chunks
    aggregated,          \* the local aggregated
    merged_responses,    \* the local merged_responses
    dataframes,          \* the local dataframes
    result,              \* <<TimeseriesResult>> once returned, else <<>>
    raised,              \* the exception that left fetch_timeseries, or None
    received,            \* per interval, the bodies _post returned, in order
    merges,              \* how many times _merge_responses has returned
    call,                \* the arguments of a helper called on its own
    ret                  \* what that helper returned

arguments == <<horizons, chunk_size, include_probabilities, include_prices,
               include_options_metrics>>
network == <<requests, in_flight, post_raised>>
grouping == <<catalog_response, catalog, markets_by_interval>>
loops == <<interval_index, chunks, chunk_index, aggregated>>
outputs == <<merged_responses, dataframes>>
outcome == <<result, raised>>
history == <<received, merges>>
helper == <<call, ret>>

vars == <<pc, arguments, network, grouping, loops, outputs, outcome, history,
          helper>>

EmptyMap == [k \in {} |-> 0]

\* a dict that takes its first key only
PutFirstOnly(d, key, value) ==
    IF DOMAIN d = {} THEN [k \in {key} |-> value] ELSE d

\* d[key] = value of a dict held as a function
Put(d, key, value) ==
    [k \in DOMAIN d \cup {key} |-> IF k = key THEN value ELSE d[k]]

\* the payload of fetch_market_catalog, as far as the model follows it
CatalogRequest(horizons_) ==
    [endpoint |-> "api_v1_market_catalog", horizons |-> horizons_,
     interval |-> None, markets |-> <<>>, blocks |-> <<>>]

\* payload["blocks"] with options_metrics asked for whenever its flag is set
PayloadBlocksUngated(interval, probabilities_, prices_, options_metrics_) ==
    (IF probabilities_ THEN <<"probabilities">> ELSE <<>>)
      \o (IF prices_ THEN <<"prices">> ELSE <<>>)
      \o (IF options_metrics_ THEN <<"options_metrics">> ELSE <<>>)

\* payload["blocks"]: lines 300-314
PayloadBlocks(interval, probabilities_, prices_, options_metrics_) ==
    (IF probabilities_ THEN <<"probabilities">> ELSE <<>>)
      \o (IF prices_ THEN <<"prices">> ELSE <<>>)
      \o (IF options_metrics_ /\ interval = "1d"
          THEN <<"options_metrics">>
          ELSE <<>>)

\* the payload of lines 295-314, as far as the model follows it
BulkRequest(interval, chunk) ==
    [endpoint |-> "api_v1_merged", horizons |-> <<>>,
     interval |-> interval, markets |-> chunk,
     blocks |-> PayloadBlocks(interval, include_probabilities, include_prices,
                              include_options_metrics)]

\* fetch_timeseries has not been called and no helper has been called
FetchIdle ==
    /\ pc = "idle"
    /\ horizons = <<>>
    /\ chunk_size = 0
    /\ include_probabilities = TRUE
    /\ include_prices = TRUE
    /\ include_options_metrics = FALSE
    /\ requests = <<>>
    /\ in_flight = <<>>
    /\ post_raised = None
    /\ catalog_response = <<>>
    /\ catalog = <<>>
    /\ markets_by_interval = <<>>
    /\ interval_index = 0
    /\ chunks = <<>>
    /\ chunk_index = 0
    /\ aggregated = EmptyDict
    /\ merged_responses = EmptyMap
    /\ dataframes = EmptyMap
    /\ result = <<>>
    /\ raised = None
    /\ received = EmptyMap
    /\ merges = 0

Init ==
    /\ FetchIdle
    /\ call = <<>>
    /\ ret = <<>>

\* ---------------------------------------------------------------- actions
\* self.session.post(...): the request goes out and the caller blocks
Send(request) ==
    /\ requests' = Append(requests, request)
    /\ in_flight' = Append(in_flight, request)

\* an exception that is swallowed where it is raised
RaiseSwallowed(exception) ==
    /\ pc' = pc
    /\ raised' = raised

\* raise: the exception leaves fetch_timeseries
Raise(exception) ==
    /\ pc' = "raised"
    /\ raised' = exception

\* line 255 without its test
NoHorizonsNever(horizons_) == FALSE

\* not horizons
NoHorizons(horizons_) == horizons_ = <<>>

\* line 271 without its test
NoCatalogNever(catalog_) == FALSE

\* not catalog
NoCatalog(catalog_) == catalog_ = <<>>

\* fetch_timeseries(horizons=..., chunk_size=..., include_...=...), up to the
\* catalog request of fetch_market_catalog (lines 255-269 and 189-200)
Call(horizons_, size, flags) ==
    /\ pc = "idle"
    /\ horizons' = horizons_
    /\ chunk_size' = size
    /\ include_probabilities' = flags[1]
    /\ include_prices' = flags[2]
    /\ include_options_metrics' = flags[3]
    /\ IF NoHorizons(horizons_)
       THEN /\ Raise("ValueError")
            /\ UNCHANGED <<requests, in_flight>>
       ELSE /\ Send(CatalogRequest(horizons_))
            /\ pc' = "catalog_wait"
            /\ UNCHANGED raised
    /\ UNCHANGED <<post_raised, grouping, loops, outputs, result, history,
                   helper>>

\* The transport returns `reply` to the catalog request in flight (line 94);
\* the rest of _post, then lines 270-285.
CatalogReply(reply) ==
    /\ pc = "catalog_wait"
    /\ in_flight' = Tail(in_flight)
    /\ LET posted == Post(reply)
           markets == IF posted.data.has_markets
                      THEN posted.data.markets
                      ELSE <<>>
       IN  /\ post_raised' = posted.raised
           /\ IF posted.raised # None
              THEN /\ Raise(posted.raised)
                   /\ UNCHANGED <<grouping, interval_index, result>>
              ELSE /\ catalog_response' = <<posted.data>>
                   /\ IF NoCatalog(markets)
                      THEN /\ result' = <<TimeseriesResult(<<>>, EmptyMap, EmptyMap)>>
                           /\ pc' = "returned"
                           /\ UNCHANGED <<catalog, markets_by_interval,
                                          interval_index, raised>>
                      ELSE /\ catalog' = markets
                           /\ markets_by_interval' = GroupByInterval(markets)
                           /\ interval_index' = 1
                           /\ pc' = "interval"
                           /\ UNCHANGED <<result, raised>>
    /\ UNCHANGED <<arguments, requests, chunks, chunk_index, aggregated,
                   outputs, history, helper>>

\* one more interval of the loop of line 287: lines 288-294
BeginInterval ==
    /\ pc = "interval"
    /\ interval_index <= Len(markets_by_interval)
    /\ LET interval == markets_by_interval[interval_index].interval
           unique_ids == SortedSet(markets_by_interval[interval_index].market_ids)
       IN  IF unique_ids = <<>>
           THEN /\ interval_index' = interval_index + 1
                /\ UNCHANGED <<pc, raised, aggregated, chunks, chunk_index,
                               received>>
           ELSE IF chunk_size = 0
           THEN /\ Raise("ValueError")
                /\ aggregated' = EmptyDict
                /\ UNCHANGED <<interval_index, chunks, chunk_index, received>>
           ELSE /\ aggregated' = EmptyDict
                /\ chunks' = Chunk(unique_ids, chunk_size)
                /\ chunk_index' = 1
                /\ received' = Put(received, interval, <<>>)
                /\ pc' = "chunk"
                /\ UNCHANGED <<interval_index, raised>>
    /\ UNCHANGED <<arguments, network, grouping, outputs, result, merges,
                   helper>>

\* one more batch of the loop of line 294: the payload and the request of
\* line 316
SendBulk ==
    /\ pc = "chunk"
    /\ chunk_index <= Len(chunks)
    /\ Send(BulkRequest(markets_by_interval[interval_index].interval,
                        chunks[chunk_index]))
    /\ pc' = "bulk_wait"
    /\ UNCHANGED <<arguments, post_raised, grouping, loops, outputs, outcome,
                   history, helper>>

\* The transport returns `reply` to the bulk request in flight (line 94);
\* the rest of _post, then line 317.
BulkReply(reply) ==
    /\ pc = "bulk_wait"
    /\ in_flight' = Tail(in_flight)
    /\ LET interval == markets_by_interval[interval_index].interval
           posted == Post(reply)
           merged == MergeResponses(aggregated, posted.data)
       IN  /\ post_raised' = posted.raised
           /\ IF posted.raised # None
              THEN /\ Raise(posted.raised)
                   /\ UNCHANGED <<aggregated, chunk_index, history>>
              ELSE /\ received' = [received EXCEPT ![interval] = Append(@, posted.data)]
                   /\ IF merged.raised # None
                      THEN /\ Raise(merged.raised)
                           /\ UNCHANGED <<aggregated, chunk_index, merges>>
                      ELSE /\ aggregated' = merged.value
                           /\ merges' = merges + 1
                           /\ chunk_index' = chunk_index + 1
                           /\ pc' = "chunk"
                           /\ UNCHANGED raised
    /\ UNCHANGED <<arguments, requests, grouping, interval_index, chunks,
                   outputs, result, helper>>

\* the batches of the interval are exhausted: lines 319-323
EndInterval ==
    /\ pc = "chunk"
    /\ chunk_index > Len(chunks)
    /\ LET interval == markets_by_interval[interval_index].interval
       IN  /\ merged_responses' = Put(merged_responses, interval, aggregated)
           /\ dataframes' = AddFrames(dataframes, aggregated, interval,
                                      Len(markets_by_interval))
    /\ interval_index' = interval_index + 1
    /\ pc' = "interval"
    /\ UNCHANGED <<arguments, network, grouping, chunks, chunk_index,
                   aggregated, outcome, history, helper>>

\* the intervals are exhausted: lines 325-329
Return ==
    /\ pc = "interval"
    /\ interval_index > Len(markets_by_interval)
    /\ result' = <<TimeseriesResult(catalog, merged_responses, dataframes)>>
    /\ pc' = "returned"
    /\ UNCHANGED <<arguments, network, grouping, loops, outputs, raised,
                   history, helper>>

Next ==
    \/ pc = "idle" /\ \E horizons_ \in HorizonArgs, size \in ChunkSizes,
                            flags \in FlagArgs :
                         Call(horizons_, size, flags)
    \/ pc = "catalog_wait" /\ \E reply \in CatalogReplies : CatalogReply(reply)
    \/ BeginInterval
    \/ SendBulk
    \/ pc = "bulk_wait" /\ \E reply \in BulkReplies(Len(requests)) :
                              BulkReply(reply)
    \/ EndInterval
    \/ Return

Spec == Init /\ [][Next]_vars

\* ------------------------------------------------- fetch_timeseries: claims
EmptyResult == TimeseriesResult(<<>>, EmptyMap, EmptyMap)

\* C1: a call with an empty horizons list raises ValueError (the spec's
\* ValidationError) and has sent no request at all, whatever chunk_size is.
C1_EmptyHorizonsRaiseBeforeAnyRequest ==
    (pc # "idle" /\ horizons = <<>>) =>
        /\ pc = "raised"
        /\ raised = "ValueError"
        /\ requests = <<>>
        /\ in_flight = <<>>
        /\ result = <<>>

C1_Witness ==
    /\ pc = "raised"
    /\ horizons = <<>>
    /\ chunk_size = 2
    /\ requests = <<>>

\* C2: once the catalog response has come back without markets ("markets"
\* missing or an empty list), the call has returned the empty result and the
\* catalog request is the only request ever sent.
NoMarketsIn(body) == ~body.has_markets \/ body.markets = <<>>

C2_NoMarketsReturnEmptyResult ==
    (catalog_response # <<>> /\ NoMarketsIn(catalog_response[1])) =>
        /\ pc = "returned"
        /\ result = <<EmptyResult>>
        /\ Len(requests) = 1
        /\ requests[1].endpoint = "api_v1_market_catalog"
        /\ in_flight = <<>>

C2_Witness ==
    /\ pc = "returned"
    /\ catalog_response = <<[has_markets |-> TRUE, markets |-> <<>>]>>
    /\ result = <<EmptyResult>>

\* C3: when _post raises for a request (catalog or bulk, HTTP-level or
\* API-level), fetch_timeseries is left with that exception at once and
\* without a result, and from then on no request is sent (none is retried)
\* and no result appears.
C3_RequestErrorAborts ==
    /\ [](post_raised # None =>
            /\ pc = "raised"
            /\ raised = post_raised
            /\ result = <<>>
            /\ in_flight = <<>>)
    /\ [][pc = "raised" =>
            /\ pc' = "raised"
            /\ requests' = requests
            /\ result' = result]_vars

C3_Witness ==
    /\ pc = "raised"
    /\ post_raised = "RuntimeError"
    /\ Len(requests) = 3
    /\ merges = 1
    /\ result = <<>>

\* the rows a block value contributes: those of an object, none otherwise
BlockRows(value) == IF value.kind = "dict" THEN GetRows(value) ELSE <<>>

\* the rows of `block` over the bodies, in the order of the bodies
RECURSIVE RowsOver(_, _)
RowsOver(bodies, block) ==
    IF bodies = <<>>
    THEN <<>>
    ELSE BlockRows(Head(bodies)[block]) \o RowsOver(Tail(bodies), block)

\* C6: for every interval and known block, the rows stored in
\* responses[interval] (and those of the aggregate being built) are the rows
\* of that block over the interval's chunk responses, in chunk order.
C6_RowsAreConcatenatedInChunkOrder ==
    /\ \A i \in DOMAIN merged_responses : \A b \in BlockNames :
          BlockRows(merged_responses[i][b]) = RowsOver(received[i], b)
    /\ pc \in {"chunk", "bulk_wait"} =>
          \A b \in BlockNames :
             BlockRows(aggregated[b]) =
                RowsOver(received[markets_by_interval[interval_index].interval], b)
    /\ result # <<>> =>
          \A i \in DOMAIN result[1].responses : \A b \in BlockNames :
             BlockRows(result[1].responses[i][b]) = RowsOver(received[i], b)

C6_Witness ==
    /\ pc = "returned"
    /\ \E i \in DOMAIN result[1].responses :
          /\ Len(received[i]) = 2
          /\ Len(RowsOver(<<received[i][1]>>, "probabilities")) >= 1
          /\ Len(RowsOver(<<received[i][2]>>, "probabilities")) >= 1
          /\ Len(BlockRows(result[1].responses[i].probabilities)) >= 2

\* the key the claim gives the table of (block, interval) in `responses`
TableKey(block, interval, responses) ==
    IF Cardinality(DOMAIN responses) = 1 THEN block ELSE block \o "_" \o interval

\* dataframes holds exactly one table per pair (interval of responses, known
\* block whose value there has one of `kinds`), under the claim's key and
\* with the block's rows
OneTablePerPair(r, kinds) ==
    LET pairs == {p \in (DOMAIN r.responses) \X BlockNames :
                     r.responses[p[1]][p[2]].kind \in kinds}
    IN  /\ DOMAIN r.dataframes = {TableKey(p[2], p[1], r.responses) : p \in pairs}
        /\ Cardinality(DOMAIN r.dataframes) = Cardinality(pairs)
        /\ \A p \in pairs :
              r.dataframes[TableKey(p[2], p[1], r.responses)] =
                 GetRows(r.responses[p[1]][p[2]])

\* C8 as stated: one table per (interval, known block present in the
\* interval's aggregated response), whatever value the block key holds.
C8_OneTablePerPresentBlock ==
    result # <<>> => OneTablePerPair(result[1], {"dict", "nondict"})

\* C8 as amended: one table per (interval of responses, known block that is
\* present as an object), an empty table when the block has no rows; the key
\* is the block name when responses holds one interval and
\* "{block}_{interval}" otherwise, and no two pairs share a key.
C8_OneTablePerObjectBlock ==
    result # <<>> => OneTablePerPair(result[1], {"dict"})

C8_Witness ==
    /\ pc = "returned"
    /\ DOMAIN result[1].responses = {"5m", "30m"}
    /\ DOMAIN result[1].dataframes =
          {"probabilities_5m", "prices_5m", "options_metrics_5m",
           "probabilities_30m"}
    /\ result[1].dataframes["prices_5m"] # <<>>
    /\ result[1].dataframes["probabilities_30m"] = <<>>

\* the bulk requests among the requests sent
IsBulk(request) == request.endpoint = "api_v1_merged"

\* strictly ascending
Ascending(ids) == \A j \in 1..(Len(ids) - 1) : ids[j] < ids[j + 1]

\* the batches sent for `interval`, in the order they were sent
BatchesSent(interval) ==
    LET sent == SelectSeq(requests, LAMBDA r : IsBulk(r) /\ r.interval = interval)
    IN  [j \in 1..Len(sent) |-> sent[j].markets]

\* the market ids grouped under `interval`
IdsOf(interval) ==
    markets_by_interval[Position(markets_by_interval, interval)].market_ids

\* C9: the catalog request is the first and only catalog request; the bulk
\* requests of one interval are consecutive and carry ascending batches of
\* ascending ids, one request per batch; a request is sent only when none is
\* in flight and every earlier bulk response has been merged.
C9_RequestsAreSerialized ==
    /\ [](/\ \A k \in 1..Len(requests) : IsBulk(requests[k]) <=> k > 1
          /\ \A j, l \in 2..Len(requests) :
                (j < l /\ requests[j].interval = requests[l].interval) =>
                   \A k \in j..l : requests[k].interval = requests[j].interval
          /\ \A k \in 2..Len(requests) :
                /\ requests[k].markets # <<>>
                /\ Ascending(requests[k].markets)
                /\ (k > 2 /\ requests[k - 1].interval = requests[k].interval) =>
                      requests[k - 1].markets[Len(requests[k - 1].markets)]
                         < requests[k].markets[1]
          /\ Len(in_flight) <= 1
          /\ in_flight # <<>> <=> pc \in {"catalog_wait", "bulk_wait"}
          /\ pc = "bulk_wait" => merges = Len(requests) - 2
          /\ pc \in {"chunk", "interval"} => merges = Len(requests) - 1
          /\ (result # <<>> /\ catalog # <<>>) =>
                /\ merges = Len(requests) - 1
                /\ \A i \in DOMAIN result[1].responses :
                      BatchesSent(i) = Chunk(SortedSet(IdsOf(i)), chunk_size))
    /\ [][requests' # requests =>
            /\ in_flight = <<>>
            /\ Len(requests') = Len(requests) + 1
            /\ in_flight' = <<requests'[Len(requests')]>>]_vars

C9_Witness ==
    /\ pc = "returned"
    /\ chunk_size = 1
    /\ Len(requests) = 4
    /\ requests[2].interval = "30m"
    /\ requests[3].interval = "5m"
    /\ requests[3].markets = <<1>>
    /\ requests[4].interval = "5m"
    /\ requests[4].markets = <<2>>
    /\ merges = 3

\* ------------------------------------------------ the helpers on their own
\* The unit tests call _chunk, _post and _merge_responses directly; so do the
\* specifications below, with fetch_timeseries never called.
fetch_vars == <<pc, arguments, network, grouping, loops, outputs, outcome,
                history>>

\* _chunk(sequence, size) for any sequence, size >= 1
ChunkItems == {1, 2, 3}

InitChunk ==
    /\ FetchIdle
    /\ call \in [sequence : SeqsUpTo(ChunkItems, MaxLen), size : 1..MaxSize]
    /\ ret = <<>>

ChunkCall ==
    /\ ret = <<>>
    /\ ret' = <<Chunk(call.sequence, call.size)>>
    /\ UNCHANGED <<call, fetch_vars>>

SpecChunk == InitChunk /\ [][ChunkCall]_vars

\* _post(endpoint, payload) for any response of the transport
PostReplies ==
    {Reply(s, TRUE, e, d) : s \in Statuses, e \in ErrorShapes, d \in BulkBodies(1)}
      \cup {Reply(s, FALSE, "absent", EmptyDict) : s \in Statuses}

InitPost ==
    /\ FetchIdle
    /\ call \in PostReplies
    /\ ret = <<>>

PostCall ==
    /\ ret = <<>>
    /\ ret' = <<Post(call)>>
    /\ UNCHANGED <<call, fetch_vars>>

SpecPost == InitPost /\ [][PostCall]_vars

\* The fold of lines 292-317 over the chunk responses of one interval:
\* aggregated = {} and then aggregated = _merge_responses(aggregated, response)
\* for the k-th response.  call holds the responses merged so far and ret the
\* latest return of _merge_responses.
MergeSources(k) ==
    {[probabilities |-> p,
      prices |-> IF rest THEN DictBlock(FALSE, <<>>, TRUE, RowsFor(2, k, 1))
                 ELSE AbsentBlock,
      options_metrics |-> IF rest THEN RowsBlock(3, k, 1) ELSE AbsentBlock,
      meta |-> mo[1], other |-> mo[2]] :
        p \in {AbsentBlock, NonDictBlock, DictBlock(FALSE, <<>>, FALSE, <<>>)}
                \cup {RowsBlock(1, k, n) : n \in 0..MaxRows},
        rest \in BOOLEAN,
        mo \in {<<(<<>>), (<<>>)>>, <<(<<k>>), (<<>>)>>, <<(<<>>), (<<k>>)>>}}

InitMerge ==
    /\ FetchIdle
    /\ call = <<>>
    /\ ret = <<>>

MergeCall(source) ==
    /\ Len(call) < MaxChunks
    /\ ret # <<>> => ret[1].raised = None
    /\ call' = Append(call, source)
    /\ ret' = <<MergeResponses(IF ret = <<>> THEN EmptyDict ELSE ret[1].value,
                               source)>>
    /\ UNCHANGED fetch_vars

NextMerge == \E source \in MergeSources(Len(call) + 1) : MergeCall(source)

SpecMerge == InitMerge /\ [][NextMerge]_vars

\* ------------------------------------------------------ the helpers: claims
Is2xx(status) == 200 <= status /\ status <= 299
Is4xxOr5xx(status) == 400 <= status /\ status <= 599
HasEnvelope(response) == response.is_json /\ response.error # "absent"

\* C4 as stated: _post returns the body only for a 2xx status without an
\* "error" field; every non-2xx response raises HTTPError (the spec's
\* TransportError); a 200 with an "error" field raises RuntimeError (the
\* spec's ApiError); a body with an "error" field is never returned.
C4_Non2xxRaisesTransportError ==
    ret # <<>> =>
        /\ ret[1].raised = None =>
              /\ Is2xx(call.status)
              /\ ~HasEnvelope(call)
              /\ ret[1].data = call.data
        /\ ~Is2xx(call.status) => ret[1].raised = "HTTPError"
        /\ (call.status = 200 /\ HasEnvelope(call)) => ret[1].raised = "RuntimeError"
        /\ HasEnvelope(call) => ret[1].raised # None

\* C4 as amended: _post returns the body only for a status that is no 4xx or
\* 5xx and a decoded body without an "error" field; every 4xx or 5xx response
\* raises HTTPError, also when its body carries an "error" field; every other
\* response whose decoded body carries an "error" field (object or bare
\* string) raises RuntimeError; a body with an "error" field is never
\* returned.
C4_ErrorStatusRaisesTransportError ==
    ret # <<>> =>
        /\ ret[1].raised = None =>
              /\ ~Is4xxOr5xx(call.status)
              /\ call.is_json
              /\ ~HasEnvelope(call)
              /\ ret[1].data = call.data
        /\ Is4xxOr5xx(call.status) => ret[1].raised = "HTTPError"
        /\ (~Is4xxOr5xx(call.status) /\ HasEnvelope(call)) =>
              ret[1].raised = "RuntimeError"
        /\ HasEnvelope(call) => ret[1].raised # None

C4_Witness ==
    /\ ret # <<>>
    /\ call.status = 503
    /\ call.is_json
    /\ call.error = "object"
    /\ ret[1].raised = "HTTPError"

RECURSIVE Flatten(_)
Flatten(batches) ==
    IF batches = <<>> THEN <<>> ELSE Head(batches) \o Flatten(Tail(batches))

Range(sequence) == {sequence[j] : j \in 1..Len(sequence)}

\* C5: for size >= 1 the batches of _chunk concatenate to the sequence, each
\* has 1..size elements and only the last may have fewer than size; an empty
\* sequence gives no batch, a non-empty one no longer than size gives exactly
\* one; and every element of a duplicate-free sequence (as unique_ids is) is
\* in exactly one batch.
C5_ChunkPartitionsTheSequence ==
    ret # <<>> =>
        LET batches == ret[1]
            sequence == call.sequence
            size == call.size
        IN  /\ Flatten(batches) = sequence
            /\ \A k \in 1..Len(batches) :
                  /\ 1 <= Len(batches[k])
                  /\ Len(batches[k]) <= size
                  /\ k < Len(batches) => Len(batches[k]) = size
            /\ sequence = <<>> => batches = <<>>
            /\ (sequence # <<>> /\ size >= Len(sequence)) => Len(batches) = 1
            /\ Cardinality(Range(sequence)) = Len(sequence) =>
                  \A x \in Range(sequence) :
                     Cardinality({k \in 1..Len(batches) : x \in Range(batches[k])}) = 1

C5_Witness ==
    /\ call = [sequence |-> <<1, 2, 3, 1>>, size |-> 3]
    /\ ret = <<(<<(<<1, 2, 3>>), (<<1>>)>>)>>

\* C7: merging into an empty destination (the first response of the fold, or
\* one that follows only empty responses) returns the source itself, whatever
\* keys the source has.
C7_EmptyDestinationReturnsSource ==
    (call # <<>> /\ \A j \in 1..(Len(call) - 1) : call[j] = EmptyDict) =>
        ret[1] = [raised |-> None, value |-> call[Len(call)]]

C7_Witness ==
    /\ Len(call) = 2
    /\ call[1] = EmptyDict
    /\ call[2] = [EmptyDict EXCEPT !.other = <<2>>,
                                   !.probabilities = DictBlock(FALSE, <<>>, FALSE, <<>>)]
    /\ ret[1].value = call[2]

\* the "meta" of the earliest response that has one, <<>> if none has
RECURSIVE FirstMeta(_)
FirstMeta(sources) ==
    IF sources = <<>>
    THEN <<>>
    ELSE IF Head(sources).meta # <<>>
    THEN Head(sources).meta
    ELSE FirstMeta(Tail(sources))

\* C10: after any run of merges that did not raise, the aggregated "meta" is
\* that of the earliest chunk response that carried one (none if none did).
C10_MetaIsFirstChunkWins ==
    (ret # <<>> /\ ret[1].raised = None) => ret[1].value.meta = FirstMeta(call)

C10_Witness ==
    /\ Len(call) = 3
    /\ call[1] # EmptyDict
    /\ call[1].meta = <<>>
    /\ call[2].meta = <<2>>
    /\ call[3].meta = <<3>>
    /\ ret[1].raised = None
    /\ ret[1].value.meta = <<2>>

\* ------------------------------------- which ids go to which interval
\* the fixed horizon -> interval mapping as the specification gives it
ClaimedInterval(horizon) ==
    CASE horizon = "daily" -> "5m"
      [] horizon = "weekly" -> "30m"
      [] horizon = "monthly" -> "1h"
      [] horizon = "yearly" -> "4h"
      [] OTHER -> None

ClaimedIntervals == {"5m", "30m", "1h", "4h"}

\* the catalog entries that have a horizon mapping to `interval` and a
\* market_id
EntriesOf(entries, interval) ==
    {k \in 1..Len(entries) :
        /\ entries[k].horizon # None
        /\ entries[k].market_id # NoneId
        /\ ClaimedInterval(entries[k].horizon) = interval}

CatalogIds(entries, interval) ==
    {entries[k].market_id : k \in EntriesOf(entries, interval)}

GroupedIntervals(entries) ==
    {i \in ClaimedIntervals : EntriesOf(entries, i) # {}}

\* C13: a call that returns with a non-empty catalog returns that catalog,
\* and responses whose keys are exactly the intervals having a catalog entry
\* with a known horizon and a market_id; for chunk_size >= 1 each of these
\* intervals was sent at least one bulk request; and when every entry is
\* skipped, responses and dataframes are empty and the catalog request is
\* the only request sent.
C13_ResponsesKeysAreTheGroupedIntervals ==
    (result # <<>> /\ catalog_response[1].markets # <<>>) =>
       LET raw == catalog_response[1].markets
       IN  /\ result[1].catalog = raw
           /\ DOMAIN result[1].responses = GroupedIntervals(raw)
           /\ chunk_size >= 1 =>
                 \A i \in GroupedIntervals(raw) : BatchesSent(i) # <<>>
           /\ \A k \in 1..Len(requests) :
                 IsBulk(requests[k]) =>
                    requests[k].interval \in GroupedIntervals(raw)
           /\ GroupedIntervals(raw) = {} =>
                 /\ result[1] = TimeseriesResult(raw, EmptyMap, EmptyMap)
                 /\ Len(requests) = 1

C13_Witness ==
    /\ pc = "returned"
    /\ chunk_size = 2
    /\ catalog_response[1].markets =
          <<[horizon |-> "weekly", market_id |-> 1],
            [horizon |-> "hourly", market_id |-> 1],
            [horizon |-> "daily", market_id |-> 2]>>
    /\ DOMAIN result[1].responses = {"5m", "30m"}
    /\ Len(requests) = 3

====
